---- MODULE Spec2Model ----
\* LocalX: the client-side conversion dispatcher (utils/fileConversion.ts), the
\* conversion orchestrator hook (hooks/useFileConversion.tsx), the component
\* that drives it (components/FileConverter.tsx) and the quota bookkeeping of
\* the auth context (context/AuthContext.tsx).
EXTENDS Integers, Sequences, FiniteSets, TLC

VARIABLES
  user,                 \* AuthProvider: useState<User | null>
  backend,              \* the Firestore document users/<uid>
  mounted,              \* the FileConverter component (and its hook) is mounted
  file,                 \* FileConverter: useState<File | null>
  targetFormat,         \* FileConverter: useState<string | null>
  state,                \* useFileConversion: useState<ConversionState>
  progressIntervalRef,  \* useFileConversion: useRef, 0 stands for null
  timers,               \* the interval timers that are active in the event loop
  calls,                \* the handleConvert invocations, by call number
  urls,                 \* the object URLs, by the call that created them
  request,              \* dispatcher check: the (file, targetFormat) under test
  response              \* dispatcher check: what convertFile did with it

vars == <<user, backend, mounted, file, targetFormat, state,
          progressIntervalRef, timers, calls, urls, request, response>>

orchVars == <<user, backend, mounted, file, targetFormat, state,
              progressIntervalRef, timers, calls, urls>>

-----------------------------------------------------------------------------
\* Bounds of the model.

MaxCalls == 2        \* handleConvert invocations followed per component instance
MaxQuotaCalls == 3   \* the same, where only the quota bookkeeping is followed

\* Program constants.

MAX_FREE_CONVERSIONS == 5
FreeMaxSize == 5 * 1024 * 1024
PremiumMaxSize == 100 * 1024 * 1024
ProgressCeiling == 85
ProgressDone == 100

\* progress is followed as its integer part: Math.random() * 2 lies in [0, 2)
\* and raises the integer part of the sum by 0, 1 or 2.
TickIncrements == {0, 1, 2}

\* null, in the shape of the value it stands in for.
NoUser == [subscription |-> "null", conversionsUsed |-> 0]
NoFile == [name |-> <<>>, size |-> 0]
NoFormat == "null"
NoResult == [success |-> FALSE, url |-> 0]
NoError == "null"
NoRoute == "none"

Min(a, b) == IF a < b THEN a ELSE b

-----------------------------------------------------------------------------
\* Format registry (utils/formatHelpers.ts, not among the sources: modelled
\* from section 4.1 of the specification). A filename is the sequence of its
\* '.'-separated segments, so <<"photo", "v2", "png">> is photo.v2.png and
\* <<"", "jpg">> is .jpg; an extension is written as the token after its
\* leading dot.

formats ==
  << [id |-> "png",  category |-> "image",    extensions |-> <<"png">>],
     [id |-> "jpg",  category |-> "image",    extensions |-> <<"jpg", "jpeg">>],
     [id |-> "pdf",  category |-> "document", extensions |-> <<"pdf">>],
     [id |-> "docx", category |-> "document", extensions |-> <<"docx">>],
     [id |-> "txt",  category |-> "document", extensions |-> <<"txt">>],
     [id |-> "md",   category |-> "document", extensions |-> <<"md">>],
     [id |-> "mp3",  category |-> "audio",    extensions |-> <<"mp3">>],
     [id |-> "wav",  category |-> "audio",    extensions |-> <<"wav">>],
     [id |-> "mp4",  category |-> "video",    extensions |-> <<"mp4">>],
     [id |-> "webm", category |-> "video",    extensions |-> <<"webm">>],
     [id |-> "zip",  category |-> "archive",  extensions |-> <<"zip">>],
     [id |-> "tar",  category |-> "archive",  extensions |-> <<"tar">>],
     [id |-> "3d",   category |-> "3d",       extensions |-> <<"3d">>] >>

NoFormatObj == [id |-> "undefined", category |-> "undefined", extensions |-> <<>>]

\* String.prototype.toLowerCase on the tokens the model uses.
toLowerCase(s) ==
  CASE s = "PNG" -> "png"
    [] s = "JPEG" -> "jpeg"
    [] s = "MP3" -> "mp3"
    [] OTHER -> s

SeqToSet(q) == {q[k] : k \in 1..Len(q)}

\* extensionOf: the text after the last '.', the whole name when there is none.
getExtension(name) == name[Len(name)]

\* lookupByExtension: case-insensitive; the first format, in declaration
\* order, that lists the extension; the sentinel when none does.
getFormatByExtension(ext) ==
  LET hits == {k \in 1..Len(formats) :
                 toLowerCase(ext) \in SeqToSet(formats[k].extensions)}
  IN  IF hits = {} THEN NoFormatObj
      ELSE formats[CHOOSE k \in hits : \A j \in hits : k <= j]

-----------------------------------------------------------------------------
\* Conversion dispatcher (utils/fileConversion.ts).

\* A switch whose audio case falls into the video converter.
SameCategoryConverter_AudioAsVideo(category) ==
  CASE category = "image"    -> "convertImage"
    [] category = "document" -> "convertDocument"
    [] category = "audio"    -> "convertVideo"
    [] category = "video"    -> "convertVideo"
    [] category = "archive"  -> "convertArchive"
    [] OTHER                 -> NoRoute

SameCategoryConverter(category) ==
  CASE category = "image"    -> "convertImage"
    [] category = "document" -> "convertDocument"
    [] category = "audio"    -> "convertAudio"
    [] category = "video"    -> "convertVideo"
    [] category = "archive"  -> "convertArchive"
    [] OTHER                 -> NoRoute

CrossCategoryConverter(sourceCategory, targetCategory) ==
  IF sourceCategory = "document" /\ targetCategory = "image"
    THEN "convertDocumentToImage"
  ELSE IF sourceCategory = "image" /\ targetCategory = "3d"
    THEN "convertTo3D"
  ELSE IF sourceCategory = "image" /\ targetCategory = "document"
    THEN "convertImageToDocument"
  ELSE NoRoute

\* The converter convertFile hands the request to; NoRoute when it answers
\* itself (unsupported format, unsupported category, unsupported pair).
route(f, target) ==
  LET sourceFormat    == getFormatByExtension(getExtension(f.name))
      targetFormatObj == getFormatByExtension(target)
  IN  IF sourceFormat = NoFormatObj \/ targetFormatObj = NoFormatObj
        THEN NoRoute
      ELSE IF sourceFormat.category = targetFormatObj.category
        THEN SameCategoryConverter(sourceFormat.category)
      ELSE CrossCategoryConverter(sourceFormat.category, targetFormatObj.category)

\* What the platform does to the call: the source is read and decoded
\* ("ok"), the read fails (FileReader error event, file.arrayBuffer()
\* rejection), or the read succeeds and the decoder or encoder gives nothing
\* (image error event, pdf.js failure, canvas.toBlob(null)).
ConverterEnv == {"ok", "readError", "decodeError"}

\* A ConversionResult with what the model follows of its file: the name, the
\* MIME type and where the bytes come from. error holds the message of a
\* failure and the note of a success; returns tells whether the promise
\* settles at all; url whether URL.createObjectURL was called.
NoResponse ==
  [success |-> FALSE, error |-> NoError, invoked |-> <<>>, returns |-> FALSE,
   filename |-> <<>>, mimeType |-> "none", bytes |-> "none", url |-> FALSE]

Failure(message) == [NoResponse EXCEPT !.returns = TRUE, !.error = message]

Success(newFilename, mimeType, bytes, note) ==
  [success |-> TRUE, error |-> note, invoked |-> <<>>, returns |-> TRUE,
   filename |-> newFilename, mimeType |-> mimeType, bytes |-> bytes, url |-> TRUE]

\* A promise whose resolve is never called.
NeverSettles == NoResponse

\* A base name cut at the first '.' instead of the last.
baseFilename_FirstDot(name) ==
  IF Len(name) = 1 THEN <<"">> ELSE <<name[1]>>

\* file.name.substring(0, file.name.lastIndexOf('.')): without a '.' the index
\* is -1 and the substring is the empty string.
baseFilename(name) ==
  IF Len(name) = 1 THEN <<"">> ELSE SubSeq(name, 1, Len(name) - 1)

\* `${baseFilename}${targetFormatObj.extensions[0]}`
newFilename(name, targetFormatObj) ==
  baseFilename(name) \o <<targetFormatObj.extensions[1]>>

\* File.type as the browser derives it from the extension.
fileType(f) ==
  IF toLowerCase(getExtension(f.name)) = "pdf" THEN "application/pdf" ELSE "other"

imageMimeType(target) ==
  CASE target = "png" -> "image/png"
    [] target \in {"jpg", "jpeg"} -> "image/jpeg"
    [] target = "webp" -> "image/webp"
    [] target = "gif" -> "image/gif"
    [] OTHER -> "image/png"

convertImage(f, target, name, env) ==
  IF env = "readError" THEN Failure("Failed to read file")
  ELSE IF env = "decodeError" \/ f.size = 0 THEN Failure("Failed to load image")
  ELSE Success(name, imageMimeType(target), "encoded", NoError)

textTargets == {"txt", "csv", "md"}
textSources == {"txt", "csv", "md", "html", "json"}

textMimeType(target) ==
  CASE target = "txt" -> "text/plain"
    [] target = "csv" -> "text/csv"
    [] target = "md" -> "text/markdown"
    [] OTHER -> "text/plain"

binaryDocumentMimeType(target) ==
  CASE target = "docx" -> "application/vnd.openxmlformats-officedocument.wordprocessingml.document"
    [] target = "pdf" -> "application/pdf"
    [] OTHER -> "application/octet-stream"

\* reader.readAsText gives "" for an empty file, which !event.target?.result
\* takes for a failed read; readAsArrayBuffer gives an object, empty or not.
\* No branch of convertDocument sets reader.onerror.
convertDocument(f, target, name, env) ==
  LET sourceExtension == toLowerCase(getExtension(f.name))
  IN  IF env = "readError" THEN NeverSettles
      ELSE IF target \in textTargets
        THEN IF sourceExtension \in textSources
               THEN IF f.size = 0
                      THEN Failure("Failed to read document content")
                      ELSE Success(name, textMimeType(target), "text", NoError)
               ELSE Success(name, textMimeType(target), "decodedText", NoError)
      ELSE IF target = "pdf" /\ sourceExtension # "pdf"
        THEN IF f.size = 0
               THEN Failure("Failed to read document content")
               ELSE Success(name, "application/pdf", "placeholder", NoError)
      ELSE Success(name, binaryDocumentMimeType(target), "source",
                   "Note: This is a basic conversion. For better results, use specialized software.")

\* For a PDF the first page is rendered with pdf.js, inside a try whose catch
\* answers every failure; for another document a placeholder picture is drawn
\* and the source is not read at all.
convertDocumentToImage(f, target, name, env) ==
  IF fileType(f) = "application/pdf"
    THEN IF env = "ok"
           THEN Success(name, imageMimeType(target), "rendered", NoError)
           ELSE Failure("Failed to convert document to image")
    ELSE IF env = "decodeError"
           THEN Failure("Failed to create image from document")
           ELSE Success(name, imageMimeType(target), "placeholder", NoError)

imageDocumentMimeType(target) ==
  CASE target = "txt" -> "text/plain"
    [] target = "md" -> "text/markdown"
    [] target = "html" -> "text/html"
    [] target = "pdf" -> "application/pdf"
    [] OTHER -> "text/plain"

\* The data URL of the image is read but never decoded.
convertImageToDocument(f, target, name, env) ==
  IF env = "readError" THEN Failure("Failed to read image file")
  ELSE Success(name, imageDocumentMimeType(target), "placeholder",
               IF target = "pdf"
                 THEN "Note: This is a simple PDF. For better results, use specialized software."
                 ELSE NoError)

\* A switch that knows no target but its default.
audioMimeType_DefaultOnly(target) == "audio/mpeg"

audioMimeType(target) ==
  CASE target = "mp3" -> "audio/mpeg"
    [] target = "wav" -> "audio/wav"
    [] target = "ogg" -> "audio/ogg"
    [] OTHER -> "audio/mpeg"

convertAudio(f, target, name, env) ==
  IF env = "readError" THEN Failure("Failed to read audio file")
  ELSE Success(name, audioMimeType(target), "source",
               "Note: This is a format container change only, not actual audio conversion")

videoMimeType(target) ==
  CASE target = "mp4" -> "video/mp4"
    [] target = "webm" -> "video/webm"
    [] target = "avi" -> "video/x-msvideo"
    [] OTHER -> "video/mp4"

convertVideo(f, target, name, env) ==
  IF env = "readError" THEN Failure("Failed to read video file")
  ELSE Success(name, videoMimeType(target), "source",
               "Note: This is a format container change only, not actual video conversion")

archiveMimeType(target) ==
  CASE target = "zip" -> "application/zip"
    [] target = "tar" -> "application/x-tar"
    [] OTHER -> "application/zip"

convertArchive(f, target, name, env) ==
  IF env = "readError" THEN Failure("Failed to read archive file")
  ELSE Success(name, archiveMimeType(target), "source",
               "Note: This is a format container change only, not actual archive conversion")

convertTo3D(f, name, env) ==
  IF env = "readError" THEN Failure("Failed to read file for 3D conversion")
  ELSE IF env = "decodeError" \/ f.size = 0
    THEN Failure("Failed to load image for 3D conversion")
  ELSE Success(name, "image/png", "heightmap", NoError)

\* A check that looks at the source format only.
unsupportedFormat_SourceOnly(sourceFormat, targetFormatObj) ==
  sourceFormat = NoFormatObj

\* if (!sourceFormat || !targetFormatObj)
unsupportedFormat(sourceFormat, targetFormatObj) ==
  sourceFormat = NoFormatObj \/ targetFormatObj = NoFormatObj

\* convertFile(file, targetFormat) in the environment env. invoked lists the
\* converters that were called.
convertFile(f, target, env) ==
  LET sourceFormat    == getFormatByExtension(getExtension(f.name))
      targetFormatObj == getFormatByExtension(target)
      r               == route(f, target)
      name            == newFilename(f.name, targetFormatObj)
      result ==
        CASE r = "convertImage"           -> convertImage(f, target, name, env)
          [] r = "convertDocument"        -> convertDocument(f, target, name, env)
          [] r = "convertAudio"           -> convertAudio(f, target, name, env)
          [] r = "convertVideo"           -> convertVideo(f, target, name, env)
          [] r = "convertArchive"         -> convertArchive(f, target, name, env)
          [] r = "convertDocumentToImage" -> convertDocumentToImage(f, target, name, env)
          [] r = "convertTo3D"            -> convertTo3D(f, name, env)
          [] r = "convertImageToDocument" -> convertImageToDocument(f, target, name, env)
  IN  IF unsupportedFormat(sourceFormat, targetFormatObj)
        THEN Failure("Unsupported format")
      ELSE IF r = NoRoute
        THEN Failure(IF sourceFormat.category = targetFormatObj.category
                       THEN "Unsupported category"
                       ELSE "This specific cross-category conversion is not supported. Try a different format.")
      ELSE [result EXCEPT !.invoked = <<r>>]


-----------------------------------------------------------------------------
\* Auth context (context/AuthContext.tsx).

\* A flag that is set for a visitor too.
isAuthenticated_Always(u) == TRUE

\* isAuthenticated: !!user
isAuthenticated(u) == u # NoUser

hasRemainingFreeConversions(u) ==
  \/ u = NoUser
  \/ u.subscription = "premium"
  \/ u.conversionsUsed < MAX_FREE_CONVERSIONS

\* onAuthStateChanged: a signed-in user's profile is read from the backend;
\* when the read throws the session state is left as it was.
AuthStateChanged(signedIn, readOk) ==
  /\ user' = IF ~signedIn THEN NoUser
             ELSE IF readOk
               THEN [subscription |-> backend.subscription,
                     conversionsUsed |-> backend.conversionsUsed]
             ELSE user
  /\ UNCHANGED <<backend, mounted, file, targetFormat, state,
                 progressIntervalRef, timers, calls, urls, request, response>>

updateSubscription(plan) ==
  /\ user # NoUser
  /\ backend' = [backend EXCEPT !.subscription = plan]
  /\ user' = [user EXCEPT !.subscription = plan]
  /\ UNCHANGED <<mounted, file, targetFormat, state,
                 progressIntervalRef, timers, calls, urls, request, response>>

-----------------------------------------------------------------------------
\* Conversion orchestrator (hooks/useFileConversion.tsx).

IdleState ==
  [isConverting |-> FALSE, progress |-> 0, result |-> NoResult, error |-> NoError]

isPremium(u) == u # NoUser /\ u.subscription = "premium"

\* Limits that are one byte short.
maxSize_OffByOne(u) == (IF isPremium(u) THEN PremiumMaxSize ELSE FreeMaxSize) - 1

maxSize(u) == IF isPremium(u) THEN PremiumMaxSize ELSE FreeMaxSize

clearInterval(ts, id) == ts \ {id}

\* if (state.result?.url) URL.revokeObjectURL(state.result.url)
revokeObjectURL(us, res) ==
  IF res # NoResult THEN [us EXCEPT ![res.url].revoked = @ + 1] ELSE us

\* The cleanup of useEffect(..., [state.result]): it runs when a render commits
\* a state.result other than the one the effect was set up with, revokes the
\* URL of the result it was set up with and clears the interval the ref holds
\* at that time (the ref is left as it is).
EffectCleanupUrls(us, oldResult, newResult) ==
  IF newResult # oldResult THEN revokeObjectURL(us, oldResult) ELSE us

EffectCleanupTimers(ts, ref, oldResult, newResult) ==
  IF newResult # oldResult THEN clearInterval(ts, ref) ELSE ts

\* reset()
reset ==
  /\ urls' = EffectCleanupUrls(revokeObjectURL(urls, state.result),
                               state.result, NoResult)
  /\ timers' = clearInterval(timers, progressIntervalRef)
  /\ progressIntervalRef' = 0
  /\ state' = IdleState

\* A tick that wraps around at the ceiling instead of stopping there.
nextProgress_Wrap(p, inc) == (p + inc) % ProgressCeiling

\* A tick without the Math.min.
nextProgress_NoCeiling(p, inc) == p + inc

\* Math.min(prev.progress + Math.random() * 2, 85)
nextProgress(p, inc) == Min(p + inc, ProgressCeiling)

\* A stopped tick that puts progress back to 0.
returnPrev_Zeroed(prev) == [prev EXCEPT !.progress = 0]

\* return prev
returnPrev(prev) == prev

\* One firing of the setInterval callback of timer t.
Tick(t, inc) ==
  /\ t \in timers
  /\ IF ~state.isConverting \/ state.progress >= ProgressCeiling
       THEN /\ timers' = clearInterval(timers, progressIntervalRef)
            /\ state' = returnPrev(state)
       ELSE /\ timers' = timers
            /\ state' = [state EXCEPT
                           !.progress = nextProgress(state.progress, inc)]
  /\ UNCHANGED <<user, backend, mounted, file, targetFormat,
                 progressIntervalRef, calls, urls, request, response>>

IdleCall ==
  [pc |-> "idle", isAuthenticated |-> FALSE, user |-> NoUser, file |-> NoFile,
   target |-> NoFormat, outcome |-> "none", increments |-> 0, newCount |-> 0]

\* A handleConvert invocation that has returned: what it did is kept, the
\* values its closure held are dropped.
DoneCall(outcome, auth, increments) ==
  [IdleCall EXCEPT !.pc = "done", !.outcome = outcome,
                   !.isAuthenticated = auth, !.increments = increments]

\* startConversion(file, targetFormat) up to its await, as call number i.
startConversion(i) ==
  IF file.size > maxSize(user)
    THEN /\ state' = [isConverting |-> FALSE, progress |-> 0,
                      result |-> NoResult, error |-> "File too large"]
         /\ urls' = EffectCleanupUrls(urls, state.result, NoResult)
         /\ timers' = EffectCleanupTimers(timers, progressIntervalRef,
                                          state.result, NoResult)
         /\ progressIntervalRef' = progressIntervalRef
         /\ calls' = [calls EXCEPT ![i] = DoneCall("tooLarge", isAuthenticated(user), 0)]
    ELSE /\ state' = [isConverting |-> TRUE, progress |-> 0,
                      result |-> NoResult, error |-> NoError]
         /\ progressIntervalRef' = i
         /\ timers' = EffectCleanupTimers(
                        clearInterval(timers, progressIntervalRef) \cup {i},
                        i, state.result, NoResult)
         /\ urls' = EffectCleanupUrls(urls, state.result, NoResult)
         /\ calls' = [calls EXCEPT ![i] =
                        [IdleCall EXCEPT !.pc = "converting",
                                         !.file = file, !.target = targetFormat,
                                         !.user = user,
                                         !.isAuthenticated = isAuthenticated(user)]]

\* An increment that is not gated on the result.
incrementIssued_Ungated(c, success) == c.isAuthenticated

\* An increment gated on the negation of the result.
incrementIssued_OnFailure(c, success) == ~success /\ c.isAuthenticated

\* if (conversionResult?.success && isAuthenticated) await incrementConversionsUsed()
incrementIssued(c, success) == success /\ c.isAuthenticated

\* A completion that leaves the interval running.
settleInterval_Kept(ts, ref) == ts

\* if (progressIntervalRef.current) clearInterval(progressIntervalRef.current)
settleInterval(ts, ref) == clearInterval(ts, ref)

\* result.error || 'Conversion failed'
errorOr(error) == IF error \in {NoError, ""} THEN "Conversion failed" ELSE error

\* A success that spreads the previous state instead of setting every field.
successState_Spread(i) ==
  [state EXCEPT !.isConverting = FALSE, !.result = [success |-> TRUE, url |-> i]]

\* setState({ isConverting: false, progress: 100, result, error: null })
successState(i) ==
  [isConverting |-> FALSE, progress |-> ProgressDone,
   result |-> [success |-> TRUE, url |-> i], error |-> NoError]

\* The rest of startConversion once convertFile has settled for call i, and of
\* handleConvert after it.
Settle(i, env) ==
  /\ calls[i].pc = "converting"
  /\ convertFile(calls[i].file, calls[i].target, env).returns
  /\ LET r        == convertFile(calls[i].file, calls[i].target, env)
         timers1  == settleInterval(timers, progressIntervalRef)
         urls1    == IF r.success THEN [urls EXCEPT ![i].created = TRUE] ELSE urls
         newState == IF r.success
                       THEN successState(i)
                       ELSE [isConverting |-> FALSE, progress |-> 0,
                             result |-> NoResult, error |-> errorOr(r.error)]
     IN  /\ progressIntervalRef' = 0
         /\ timers' = timers1
         /\ IF mounted
              THEN /\ state' = newState
                   /\ urls' = EffectCleanupUrls(urls1, state.result, newState.result)
              ELSE /\ state' = state
                   /\ urls' = urls1
         /\ calls' = [calls EXCEPT ![i] =
              IF incrementIssued(calls[i], r.success)
                THEN [@ EXCEPT !.pc = "incrementing",
                               !.outcome = IF r.success THEN "success" ELSE "failure",
                               !.increments = @ + 1,
                               !.newCount = calls[i].user.conversionsUsed + 1]
                ELSE DoneCall(IF r.success THEN "success" ELSE "failure",
                              calls[i].isAuthenticated, 0)]
  /\ UNCHANGED <<user, backend, mounted, file, targetFormat, request, response>>

\* The FileReader of call i fires its error event and the converter has set no
\* onerror: nothing runs, the promise of convertFile stays pending and
\* startConversion stays at its await.
Stall(i) ==
  /\ calls[i].pc = "converting"
  /\ ~convertFile(calls[i].file, calls[i].target, "readError").returns
  /\ calls' = [calls EXCEPT ![i].pc = "stalled", ![i].outcome = "unreported"]
  /\ UNCHANGED <<user, backend, mounted, file, targetFormat, state,
                 progressIntervalRef, timers, urls, request, response>>

\* A catch that throws the write error on, out of handleConvert.
incrementReturned_Rethrow(c, writeOk) ==
  DoneCall(IF writeOk THEN c.outcome ELSE "threw", c.isAuthenticated, c.increments)

\* handleConvert once incrementConversionsUsed has returned: the catch of
\* incrementConversionsUsed logs a failed write and returns normally.
incrementReturned(c, writeOk) ==
  DoneCall(c.outcome, c.isAuthenticated, c.increments)

\* incrementConversionsUsed() after its await: updateDoc resolved (the count is
\* written and the session user replaced) or rejected (logged, nothing else).
IncrementSettle(i, writeOk) ==
  /\ calls[i].pc = "incrementing"
  /\ calls' = [calls EXCEPT ![i] = incrementReturned(calls[i], writeOk)]
  /\ IF writeOk
       THEN /\ backend' = [backend EXCEPT !.conversionsUsed = calls[i].newCount]
            /\ user' = [calls[i].user EXCEPT !.conversionsUsed = calls[i].newCount]
       ELSE UNCHANGED <<backend, user>>
  /\ UNCHANGED <<mounted, file, targetFormat, state, progressIntervalRef,
                 timers, urls, request, response>>

\* The component unmounts: the effect cleanup runs a last time.
Unmount ==
  /\ mounted
  /\ mounted' = FALSE
  /\ urls' = revokeObjectURL(urls, state.result)
  /\ timers' = clearInterval(timers, progressIntervalRef)
  /\ UNCHANGED <<user, backend, file, targetFormat, state,
                 progressIntervalRef, calls, request, response>>

-----------------------------------------------------------------------------
\* The component that drives the orchestrator (components/FileConverter.tsx,
\* components/FileDropzone.tsx, components/ConversionOptions.tsx).

\* The files a user drops and the formats a user picks.
Files ==
  { [name |-> <<"photo", "png">>, size |-> FreeMaxSize],
    [name |-> <<"clip", "mp4">>,  size |-> FreeMaxSize + 1] }

Targets == {"jpg"}

\* FileDropzone.validateFile
validateFile(f) == f.size <= maxSize(user)

\* handleFileDrop: the dropzone is rendered while there is no result; the
\* effect on [file] clears the target format.
handleFileDrop(f) ==
  /\ mounted
  /\ state.result = NoResult
  /\ validateFile(f)
  /\ file' = f
  /\ targetFormat' = NoFormat
  /\ reset
  /\ UNCHANGED <<user, backend, mounted, calls, request, response>>

\* handleFormatSelect: ConversionOptions offers, while not converting, every
\* format but the source's own when the source format is recognised.
handleFormatSelect(t) ==
  /\ mounted
  /\ file # NoFile
  /\ state.result = NoResult
  /\ ~state.isConverting
  /\ getFormatByExtension(getExtension(file.name)) # NoFormatObj
  /\ t # getFormatByExtension(getExtension(file.name)).id
  /\ targetFormat' = t
  /\ UNCHANGED <<user, backend, mounted, file, state, progressIntervalRef,
                 timers, calls, urls, request, response>>

\* The Convert button is rendered with a file, a target and no result, and is
\* disabled while converting or without remaining free conversions.
ConvertButtonEnabled ==
  /\ file # NoFile
  /\ targetFormat # NoFormat
  /\ state.result = NoResult
  /\ ~state.isConverting
  /\ hasRemainingFreeConversions(user)

\* A handler that looks at the size before the quota.
handleConvert_SizeFirst(i) ==
  IF file = NoFile \/ targetFormat = NoFormat
    THEN /\ calls' = [calls EXCEPT ![i] =
                        DoneCall("missingInput", isAuthenticated(user), 0)]
         /\ UNCHANGED <<state, progressIntervalRef, timers, urls>>
  ELSE IF file.size <= maxSize(user) /\ ~hasRemainingFreeConversions(user)
    THEN /\ calls' = [calls EXCEPT ![i] =
                        DoneCall("quotaExceeded", isAuthenticated(user), 0)]
         /\ UNCHANGED <<state, progressIntervalRef, timers, urls>>
  ELSE startConversion(i)

\* handleConvert up to its await, as call number i.
handleConvert(i) ==
  IF file = NoFile \/ targetFormat = NoFormat
    THEN /\ calls' = [calls EXCEPT ![i] =
                        DoneCall("missingInput", isAuthenticated(user), 0)]
         /\ UNCHANGED <<state, progressIntervalRef, timers, urls>>
  ELSE IF ~hasRemainingFreeConversions(user)
    THEN /\ calls' = [calls EXCEPT ![i] =
                        DoneCall("quotaExceeded", isAuthenticated(user), 0)]
         /\ UNCHANGED <<state, progressIntervalRef, timers, urls>>
  ELSE startConversion(i)

NextCall(i) ==
  /\ calls[i].pc = "idle"
  /\ \A j \in 1..(i - 1) : calls[j].pc # "idle"

ClickConvert ==
  /\ mounted
  /\ ConvertButtonEnabled
  /\ \E i \in DOMAIN calls : NextCall(i) /\ handleConvert(i)
  /\ UNCHANGED <<user, backend, mounted, file, targetFormat, request, response>>

\* handleReset: "Convert Another File", rendered with the result.
handleReset ==
  /\ mounted
  /\ state.result # NoResult
  /\ file' = NoFile
  /\ targetFormat' = NoFormat
  /\ reset
  /\ UNCHANGED <<user, backend, mounted, calls, request, response>>

-----------------------------------------------------------------------------
\* The application: a session that starts signed out, with a backend profile
\* left by earlier sessions, one conversion short of the cap.

InitUsed == {MAX_FREE_CONVERSIONS - 1}

NoRequest == [file |-> NoFile, target |-> NoFormat, env |-> "ok"]

Init ==
  /\ user = NoUser
  /\ backend \in [subscription : {"free"}, conversionsUsed : InitUsed]
  /\ mounted = TRUE
  /\ file = NoFile
  /\ targetFormat = NoFormat
  /\ state = IdleState
  /\ progressIntervalRef = 0
  /\ timers = {}
  /\ calls = [i \in 1..MaxCalls |-> IdleCall]
  /\ urls = [i \in 1..MaxCalls |-> [created |-> FALSE, revoked |-> 0]]
  /\ request = NoRequest
  /\ response = NoResponse

Next ==
  \/ \E signedIn \in BOOLEAN, readOk \in BOOLEAN : AuthStateChanged(signedIn, readOk)
  \/ \E plan \in {"free", "premium"} : updateSubscription(plan)
  \/ \E f \in Files : handleFileDrop(f)
  \/ \E t \in Targets : handleFormatSelect(t)
  \/ ClickConvert
  \/ handleReset
  \/ \E t \in timers, inc \in TickIncrements : Tick(t, inc)
  \/ \E i \in 1..MaxCalls, env \in ConverterEnv : Settle(i, env)
  \/ \E i \in 1..MaxCalls, writeOk \in BOOLEAN : IncrementSettle(i, writeOk)
  \/ Unmount

Spec == Init /\ [][Next]_vars

-----------------------------------------------------------------------------
\* The quota bookkeeping on its own: the session of a new account (nothing
\* used yet) in which every conversion is done before the first tick of its
\* progress timer, every converter succeeds and every backend write arrives.

InitQuota ==
  /\ user = NoUser
  /\ backend = [subscription |-> "free", conversionsUsed |-> 0]
  /\ mounted = TRUE
  /\ file = NoFile
  /\ targetFormat = NoFormat
  /\ state = IdleState
  /\ progressIntervalRef = 0
  /\ timers = {}
  /\ calls = [i \in 1..MaxQuotaCalls |-> IdleCall]
  /\ urls = [i \in 1..MaxQuotaCalls |-> [created |-> FALSE, revoked |-> 0]]
  /\ request = NoRequest
  /\ response = NoResponse

NextQuota ==
  \/ \E signedIn \in BOOLEAN, readOk \in BOOLEAN : AuthStateChanged(signedIn, readOk)
  \/ \E f \in Files : handleFileDrop(f)
  \/ \E t \in Targets : handleFormatSelect(t)
  \/ ClickConvert
  \/ handleReset
  \/ \E i \in DOMAIN calls : Settle(i, "ok")
  \/ \E i \in DOMAIN calls : IncrementSettle(i, TRUE)

SpecQuota == InitQuota /\ [][NextQuota]_vars

-----------------------------------------------------------------------------
\* One conversion attempt on its own: handleConvert invoked once, whatever the
\* button shows, with each combination of session user, dropped file and
\* selected format below, and followed until it has settled.

PreflightUsers ==
  { NoUser,
    [subscription |-> "free", conversionsUsed |-> 0],
    [subscription |-> "free", conversionsUsed |-> MAX_FREE_CONVERSIONS],
    [subscription |-> "premium", conversionsUsed |-> MAX_FREE_CONVERSIONS] }

PreflightFiles ==
  {NoFile} \cup
  [name : {<<"photo", "png">>, <<"notes", "txt">>},
   size : {FreeMaxSize, FreeMaxSize + 1, PremiumMaxSize, PremiumMaxSize + 1}]

PreflightTargets == {NoFormat, "jpg", "md"}

InitPreflight ==
  /\ user \in PreflightUsers
  /\ backend = IF user = NoUser
                 THEN [subscription |-> "free", conversionsUsed |-> 0]
                 ELSE user
  /\ mounted = TRUE
  /\ file \in PreflightFiles
  /\ targetFormat \in PreflightTargets
  /\ state = IdleState
  /\ progressIntervalRef = 0
  /\ timers = {}
  /\ calls = [i \in 1..MaxCalls |-> IdleCall]
  /\ urls = [i \in 1..MaxCalls |-> [created |-> FALSE, revoked |-> 0]]
  /\ request = NoRequest
  /\ response = NoResponse

Submit ==
  /\ calls[1].pc = "idle"
  /\ handleConvert(1)
  /\ UNCHANGED <<user, backend, mounted, file, targetFormat, request, response>>

NextPreflight ==
  \/ Submit
  \/ \E t \in timers, inc \in TickIncrements : Tick(t, inc)
  \/ \E i \in 1..MaxCalls, env \in ConverterEnv : Settle(i, env)
  \/ \E i \in 1..MaxCalls : Stall(i)
  \/ \E i \in 1..MaxCalls, writeOk \in BOOLEAN : IncrementSettle(i, writeOk)

SpecPreflight == InitPreflight /\ [][NextPreflight]_vars

\* The event loop runs what is ready: a timer that is due fires, a read that
\* has finished is delivered, a write that has finished is delivered.
SpecPreflightFair == SpecPreflight /\ WF_vars(NextPreflight)

-----------------------------------------------------------------------------
\* The dispatcher on its own: convertFile applied once to each request drawn
\* from the names and targets below (resolving and not, every category, upper
\* case, several dots, no dot).

DispatchNames ==
  { <<"photo", "png">>, <<"photo", "v2", "JPEG">>, <<"report", "pdf">>,
    <<"notes", "txt">>, <<"song", "MP3">>, <<"take", "wav">>,
    <<"clip", "mp4">>, <<"bundle", "zip">>, <<"model", "3d">>,
    <<"letter", "docx">>, <<"txt">>, <<"noext">>, <<"data", "xyz">> }

DispatchTargets ==
  {"png", "jpg", "pdf", "docx", "txt", "md", "mp3", "wav", "mp4", "webm",
   "zip", "tar", "3d", "xyz"}

\* An empty file and one at the free size limit.
DispatchSizes == {0, FreeMaxSize}

InitDispatch ==
  /\ user = NoUser
  /\ backend = [subscription |-> "free", conversionsUsed |-> 0]
  /\ mounted = TRUE
  /\ file = NoFile
  /\ targetFormat = NoFormat
  /\ state = IdleState
  /\ progressIntervalRef = 0
  /\ timers = {}
  /\ calls = [i \in 1..MaxCalls |-> IdleCall]
  /\ urls = [i \in 1..MaxCalls |-> [created |-> FALSE, revoked |-> 0]]
  /\ request \in [file : [name : DispatchNames, size : DispatchSizes],
                  target : DispatchTargets, env : ConverterEnv]
  /\ response = NoResponse

\* await convertFile(file, targetFormat): the step is there when the promise
\* settles.
Convert ==
  /\ response = NoResponse
  /\ convertFile(request.file, request.target, request.env).returns
  /\ response' = convertFile(request.file, request.target, request.env)
  /\ UNCHANGED <<orchVars, request>>

NextDispatch == Convert

SpecDispatch == InitDispatch /\ [][NextDispatch]_vars

-----------------------------------------------------------------------------
\* The height map: the grayscale loop of convertTo3D (utils/fileConversion.ts)
\* applied to one pixel, and convertImageTo3D (utils/image3DConversion.ts)
\* applied to an image of given dimensions.

maxSize3D == 256

\* The store of a number, given in thousandths, into a Uint8ClampedArray:
\* rounded to the nearest integer, a half to the even one, and clamped.
ToUint8Clamp_Truncated(thousandths) ==
  Min(thousandths \div 1000, 255)

ToUint8Clamp(thousandths) ==
  LET q == thousandths \div 1000
      m == thousandths % 1000
      n == IF m > 500 \/ (m = 500 /\ q % 2 = 1) THEN q + 1 ELSE q
  IN  Min(n, 255)

\* gray = r * 0.299 + g * 0.587 + b * 0.114, stored into the three colour
\* channels; the alpha channel is not written. The sum is taken exactly: the
\* double sum stores the same value for every pixel over Channels (for other
\* pixels whose exact sum ends in .5 it can fall to either neighbour).
grayscale(px) ==
  LET gray == 299 * px.r + 587 * px.g + 114 * px.b
  IN  [r |-> ToUint8Clamp(gray), g |-> ToUint8Clamp(gray),
       b |-> ToUint8Clamp(gray), a |-> px.a]

\* createHeightMap: the size of the canvas. Math.floor(h * (maxSize / w)) is
\* taken as the floor of the exact quotient (in double arithmetic it is one
\* less for some sizes whose quotient is a whole number of at least 31).
createHeightMap(width, height) ==
  IF width > height
    THEN IF width > maxSize3D
           THEN [width |-> maxSize3D, height |-> (height * maxSize3D) \div width]
           ELSE [width |-> width, height |-> height]
    ELSE IF height > maxSize3D
           THEN [width |-> (width * maxSize3D) \div height, height |-> maxSize3D]
           ELSE [width |-> width, height |-> height]

\* What the platform does to convertImageTo3D: all goes well, the image does
\* not load, the canvas gives no 2d context, the WebGL renderer throws.
Env3D == {"ok", "loadError", "noContext", "renderError"}

NoSize == [width |-> 0, height |-> 0]

\* convertImageTo3D: created and revoked count URL.createObjectURL and
\* URL.revokeObjectURL on the input image; size is the canvas size once
\* createHeightMap has set it. getImageData throws for a canvas without area.
convertImageTo3D(width, height, env) ==
  LET size == createHeightMap(width, height)
      failure(message, sz) ==
        [success |-> FALSE, error |-> message, created |-> 1, revoked |-> 0,
         size |-> sz]
  IN  IF env = "loadError" THEN failure("Failed to load image", NoSize)
      ELSE IF env = "noContext" THEN failure("Failed to get canvas context", NoSize)
      ELSE IF size.width = 0 \/ size.height = 0 THEN failure("IndexSizeError", size)
      ELSE IF env = "renderError" THEN failure("Error creating WebGL context", size)
      ELSE [success |-> TRUE, error |-> NoError, created |-> 1, revoked |-> 1,
            size |-> size]

Channels == {0, 100, 250, 255}
Alphas == {0, 128, 255}
Dims == {1, 2, 3, 100, 255, 256, 257, 300, 512, 1000}

NoPixel == [r |-> 0, g |-> 0, b |-> 0, a |-> 0]

HeightMapRequests ==
  [kind : {"pixel"}, pixel : [r : Channels, g : Channels, b : Channels, a : Alphas],
   width : {1}, height : {1}, env : {"ok"}]
  \cup
  [kind : {"image"}, pixel : {NoPixel}, width : Dims, height : Dims, env : Env3D]

NoOutput ==
  [kind |-> "none", pixel |-> NoPixel,
   model |-> [success |-> FALSE, error |-> NoError, created |-> 0, revoked |-> 0,
              size |-> NoSize]]

InitHeightMap ==
  /\ user = NoUser
  /\ backend = [subscription |-> "free", conversionsUsed |-> 0]
  /\ mounted = TRUE
  /\ file = NoFile
  /\ targetFormat = NoFormat
  /\ state = IdleState
  /\ progressIntervalRef = 0
  /\ timers = {}
  /\ calls = [i \in 1..MaxCalls |-> IdleCall]
  /\ urls = [i \in 1..MaxCalls |-> [created |-> FALSE, revoked |-> 0]]
  /\ request \in HeightMapRequests
  /\ response = NoOutput

GrayscaleStep ==
  /\ request.kind = "pixel"
  /\ response = NoOutput
  /\ response' = [NoOutput EXCEPT !.kind = "pixel", !.pixel = grayscale(request.pixel)]
  /\ UNCHANGED <<orchVars, request>>

ConvertImageTo3DStep ==
  /\ request.kind = "image"
  /\ response = NoOutput
  /\ response' = [NoOutput EXCEPT
                    !.kind = "image",
                    !.model = convertImageTo3D(request.width, request.height,
                                               request.env)]
  /\ UNCHANGED <<orchVars, request>>

NextHeightMap == GrayscaleStep \/ ConvertImageTo3DStep

SpecHeightMap == InitHeightMap /\ [][NextHeightMap]_vars

-----------------------------------------------------------------------------
\* Claims.

Converted == response # NoResponse
SourceCategory == getFormatByExtension(getExtension(request.file.name)).category
TargetCategory == getFormatByExtension(request.target).category
Resolves == SourceCategory # "undefined" /\ TargetCategory # "undefined"
SameCategoryConverters ==
  [image |-> "convertImage", document |-> "convertDocument",
   audio |-> "convertAudio", video |-> "convertVideo",
   archive |-> "convertArchive"]

\* C1 (as stated): every request whose source extension and target format
\* both resolve has exactly one converter invoked: the 3D heightmap converter
\* for target "3d" with an image source, else the category's own converter
\* when source and target categories are equal.
C1_ExactlyOneConverter ==
  (Converted /\ Resolves) =>
    /\ Len(response.invoked) = 1
    /\ (request.target = "3d" /\ SourceCategory = "image")
         => response.invoked = <<"convertTo3D">>
    /\ (SourceCategory = TargetCategory /\ SourceCategory \in DOMAIN SameCategoryConverters)
         => response.invoked = <<SameCategoryConverters[SourceCategory]>>

\* C1 (amended): every resolving request has at most one converter invoked;
\* exactly one, the 3D heightmap converter, for target "3d" with an image
\* source; exactly one, the category's own converter, when source and target
\* share one of the five categories; and none, with a failure result, for a
\* cross-category pair other than image->3d, document->image, image->document
\* and for a 3d source with a 3d target.
C1_Routing ==
  (Converted /\ Resolves) =>
    /\ Len(response.invoked) <= 1
    /\ (request.target = "3d" /\ SourceCategory = "image")
         => response.invoked = <<"convertTo3D">>
    /\ (SourceCategory = TargetCategory /\ SourceCategory \in DOMAIN SameCategoryConverters)
         => response.invoked = <<SameCategoryConverters[SourceCategory]>>
    /\ ( /\ ~(SourceCategory = TargetCategory /\ SourceCategory \in DOMAIN SameCategoryConverters)
         /\ <<SourceCategory, TargetCategory>> \notin
              {<<"image", "3d">>, <<"document", "image">>, <<"image", "document">>} )
         => (response.invoked = <<>> /\ ~response.success)

C1_Witness ==
  /\ Converted
  /\ request.target = "3d"
  /\ SourceCategory = "image"
  /\ response.invoked = <<"convertTo3D">>
  /\ response.success

CallIds == 1..MaxCalls

\* C2 (as stated): the quota check lets a free signed-in user through exactly
\* while conversionsUsed is below a cap of 10, and never rejects a premium
\* user.
C2_FreeCapIsTen ==
  user # NoUser =>
    (hasRemainingFreeConversions(user)
       <=> (user.subscription = "premium" \/ user.conversionsUsed < 10))

\* C3: a handleConvert invocation has issued exactly one increment when its
\* conversion returned success for a user signed in at the click, and none
\* otherwise (not yet settled, failed, rejected, or signed out).
C3_OneIncrementPerSuccess ==
  \A i \in CallIds :
    calls[i].increments =
      IF calls[i].outcome = "success" /\ calls[i].isAuthenticated THEN 1 ELSE 0

C3_Witness ==
  \E i \in CallIds :
    /\ calls[i].pc = "done"
    /\ calls[i].outcome = "success"
    /\ calls[i].isAuthenticated
    /\ calls[i].increments = 1

FailedOutcomes == {"missingInput", "quotaExceeded", "tooLarge", "failure"}

\* C4: no step of a failed conversion attempt (its rejection, or the
\* completion of its conversion with a failure) changes conversionsUsed, in
\* the session or in the backend.
C4_FailureLeavesQuota ==
  [][\A i \in CallIds :
       (calls'[i] # calls[i] /\ calls'[i].outcome \in FailedOutcomes)
         => (user' = user /\ backend' = backend)]_vars

C4_Witness ==
  \E i \in CallIds :
    /\ calls[i].pc = "done"
    /\ calls[i].outcome = "failure"
    /\ calls[i].isAuthenticated
    /\ user # NoUser
    /\ user.conversionsUsed = backend.conversionsUsed

\* C5 (as stated): at most one conversion is in flight at any time.
C5_OneConversionInFlight ==
  Cardinality({i \in CallIds : calls[i].pc = "converting"}) <= 1

\* C6: an active progress timer belongs to a conversion that has not settled,
\* in a component that is mounted: once the conversion task of the call that
\* created it has settled, or the component has unmounted, it is cancelled.
C6_NoTimerAfterSettle ==
  \A t \in timers : mounted /\ calls[t].pc = "converting"

C6_Witness ==
  /\ timers = {}
  /\ \E i \in CallIds : calls[i].pc = "done" /\ calls[i].outcome \in {"success", "failure"}
  /\ \E i \in CallIds : calls[i].pc = "converting"

\* C7 (as stated): a preview handle that was created is either still held as
\* the current result of the mounted component or has been released, and it
\* is released exactly once, never twice.
C7_ReleasedExactlyOnce ==
  \A i \in CallIds :
    urls[i].created =>
      \/ urls[i].revoked = 1
      \/ urls[i].revoked = 0 /\ mounted /\ state.result.url = i

Phase(s) ==
  IF s.isConverting THEN "Converting"
  ELSE IF s.result # NoResult THEN "Succeeded"
  ELSE IF s.error # NoError THEN "Failed"
  ELSE "Idle"

\* C8 (as stated): the orchestrator state changes only by Idle->Converting,
\* Converting->Succeeded, Converting->Failed, Succeeded->Idle and Failed->Idle.
C8_OnlyListedTransitions ==
  [][\/ Phase(state') = Phase(state)
     \/ <<Phase(state), Phase(state')>> \in
          { <<"Idle", "Converting">>, <<"Converting", "Succeeded">>,
            <<"Converting", "Failed">>, <<"Succeeded", "Idle">>,
            <<"Failed", "Idle">> }]_vars

\* C9: from one state to the next, while the orchestrator is Converting in
\* both, progress does not decrease.
C9_ProgressMonotone ==
  [][(state.isConverting /\ state'.isConverting)
       => state'.progress >= state.progress]_vars

C9_Witness ==
  state.isConverting /\ state.progress = ProgressCeiling

Completes(i, outcome) ==
  calls[i].pc \in {"idle", "converting"} /\ calls'[i].outcome = outcome

\* C10: while Converting, progress lies between 0 and the ceiling 85; the
\* step that completes a conversion with success leaves progress at 100, and
\* the step that completes one with failure leaves it at 0.
C10_ProgressRange ==
  /\ [](state.isConverting => (state.progress >= 0 /\ state.progress <= ProgressCeiling))
  /\ [][\A i \in CallIds :
          /\ (mounted /\ Completes(i, "success")) => state'.progress = ProgressDone
          /\ (mounted /\ (Completes(i, "failure") \/ Completes(i, "tooLarge")))
               => state'.progress = 0]_vars

C10_Witness ==
  /\ state.progress = ProgressDone
  /\ \E i \in CallIds : calls[i].outcome = "success"
  /\ \E i \in CallIds : calls[i].outcome = "failure"

-----------------------------------------------------------------------------
\* Claims about the dispatcher and the converters.

CanonicalExtension == getFormatByExtension(request.target).extensions[1]
SameCategory ==
  Resolves /\ SourceCategory = TargetCategory
           /\ SourceCategory \in DOMAIN SameCategoryConverters
Readable == request.env # "readError"

\* C13: when the source extension or the target format id does not resolve,
\* convertFile returns success=false with the unsupported-format error, invokes
\* no converter and creates neither an output file nor a preview handle.
C13_UnsupportedFormat ==
  (Converted /\ ~Resolves) =>
    /\ ~response.success
    /\ response.error = "Unsupported format"
    /\ response.invoked = <<>>
    /\ response.filename = <<>>
    /\ ~response.url

C13_Witness ==
  /\ Converted
  /\ SourceCategory = "image"
  /\ TargetCategory = "undefined"
  /\ response.error = "Unsupported format"

DispatchRequests ==
  [file : [name : DispatchNames, size : DispatchSizes \ {0}],
   target : DispatchTargets, env : {"ok"}]

CategoryOf(q) ==
  << getFormatByExtension(getExtension(q.file.name)).category,
     getFormatByExtension(q.target).category >>

CrossCategory(q) ==
  /\ "undefined" \notin {CategoryOf(q)[1], CategoryOf(q)[2]}
  /\ CategoryOf(q)[1] # CategoryOf(q)[2]
  /\ CategoryOf(q)[2] # "3d"

Rejected(r) == ~r.success /\ r.invoked = <<>>
RelabelledWithWarning(r) == r.success /\ r.bytes = "source" /\ r.error # NoError

\* C14 (as stated): the cross-category, non-3D pairs all get one policy, every
\* one rejected or every one byte-relabelled with a warning, and no
\* cross-category request succeeds without a warning.
C14_SingleCrossCategoryPolicy ==
  (Converted /\ CrossCategory(request) /\ request.env = "ok") =>
    /\ LET results == {convertFile(q.file, q.target, q.env) :
                         q \in {x \in DispatchRequests : CrossCategory(x)}}
       IN  \/ \A r \in results : Rejected(r)
           \/ \A r \in results : RelabelledWithWarning(r)
    /\ response.success => response.error # NoError

\* C15 (as stated): the output filename of a successful conversion is the
\* source filename with the text from its last '.' onward replaced by the
\* target's canonical extension; a name without '.' has no such text.
C15_LastExtensionReplaced ==
  (Converted /\ response.success) =>
    response.filename =
      (IF Len(request.file.name) > 1
         THEN SubSeq(request.file.name, 1, Len(request.file.name) - 1)
         ELSE request.file.name) \o <<CanonicalExtension>>

\* C15 (amended): the output filename of a successful conversion is, for a
\* source filename with a '.', the source filename with the text from its last
\* '.' onward replaced by the target's canonical extension, and for a source
\* filename without a '.', whose whole name is its extension, the canonical
\* extension alone.
C15_OutputFilename ==
  (Converted /\ response.success) =>
    response.filename =
      (IF Len(request.file.name) > 1
         THEN SubSeq(request.file.name, 1, Len(request.file.name) - 1)
         ELSE <<"">>) \o <<CanonicalExtension>>

C15_Witness ==
  /\ Converted
  /\ request.file.name = <<"photo", "v2", "JPEG">>
  /\ request.target = "png"
  /\ response.success
  /\ response.filename = <<"photo", "v2", "png">>

\* C16 (as stated): every same-category pair of supported formats, source
\* format equal to target format included, and every readable source, an empty
\* one included, gives success=true and a file named with the target's
\* canonical extension.
C16_SameCategorySucceeds ==
  (Converted /\ SameCategory /\ request.env = "ok") =>
    /\ response.success
    /\ response.filename # <<>>
    /\ response.filename[Len(response.filename)] = CanonicalExtension

MimeOf ==
  [mp3 |-> "audio/mpeg", wav |-> "audio/wav", mp4 |-> "video/mp4",
   webm |-> "video/webm", zip |-> "application/zip", tar |-> "application/x-tar"]

RelabelNotes ==
  { "Note: This is a format container change only, not actual audio conversion",
    "Note: This is a format container change only, not actual video conversion",
    "Note: This is a format container change only, not actual archive conversion" }

\* C18: an audio->audio, video->video or archive->archive conversion of a
\* readable source succeeds with the bytes of the source, the MIME type of the
\* target format and a note that says no real conversion took place.
C18_RelabelWithAdvisory ==
  (Converted /\ SameCategory /\ SourceCategory \in {"audio", "video", "archive"}
             /\ Readable) =>
    /\ response.success
    /\ response.bytes = "source"
    /\ response.mimeType = MimeOf[request.target]
    /\ response.error \in RelabelNotes

C18_Witness ==
  /\ Converted
  /\ request.file = [name |-> <<"song", "MP3">>, size |-> 0]
  /\ request.target = "wav"
  /\ response.success
  /\ response.mimeType = "audio/wav"

BinaryDocumentTargets == {"pdf", "docx"}

BinaryDocumentConversion(q) ==
  CategoryOf(q)[1] = "document" /\ q.target \in BinaryDocumentTargets

FlaggedPlaceholder(r) == r.success /\ r.bytes = "placeholder" /\ r.error # NoError

\* C19 (as stated): the document conversions to PDF or DOCX all follow one
\* policy: every one emits a placeholder flagged as non-equivalent content, or
\* every one is rejected.
C19_UniformBinaryDocumentPolicy ==
  (Converted /\ BinaryDocumentConversion(request) /\ request.env = "ok") =>
    LET results == {convertFile(q.file, q.target, q.env) :
                      q \in {x \in DispatchRequests : BinaryDocumentConversion(x)}}
    IN  \/ \A r \in results : FlaggedPlaceholder(r)
        \/ \A r \in results : ~r.success

-----------------------------------------------------------------------------
\* Claims about one conversion attempt.

Submitted == calls[1].pc = "idle" /\ calls'[1].pc # "idle"
PassesEarlierChecks ==
  file # NoFile /\ targetFormat # NoFormat /\ hasRemainingFreeConversions(user)
SizeLimit ==
  IF user # NoUser /\ user.subscription = "premium"
    THEN PremiumMaxSize ELSE FreeMaxSize

\* C11: startConversion rejects a file larger than 5 MiB for a user who is not
\* premium, larger than 100 MiB for a premium user, with the file-too-large
\* error, without invoking convertFile and without starting the progress
\* timer; a file of exactly the limit is accepted.
C11_FileSizeLimit ==
  [][(Submitted /\ PassesEarlierChecks) =>
       IF file.size > SizeLimit
         THEN /\ calls'[1].pc = "done"
              /\ calls'[1].outcome = "tooLarge"
              /\ timers' = timers
              /\ progressIntervalRef' = progressIntervalRef
              /\ ~state'.isConverting
              /\ state'.error = "File too large"
         ELSE /\ calls'[1].pc = "converting"
              /\ state'.isConverting
              /\ state'.error = NoError]_vars

C11_Witness ==
  /\ isPremium(user)
  /\ file.size = PremiumMaxSize
  /\ calls[1].pc = "done"
  /\ calls[1].outcome = "success"

\* C12: the pre-flight checks run in the order missing-input, quota,
\* file-size; the first that fails is the one reported, and a request stopped
\* by an earlier check shows nothing of a later one (the orchestrator state is
\* left as it was).
C12_PreflightOrder ==
  [][Submitted =>
       /\ calls'[1].outcome =
            IF file = NoFile \/ targetFormat = NoFormat THEN "missingInput"
            ELSE IF ~hasRemainingFreeConversions(user) THEN "quotaExceeded"
            ELSE IF file.size > SizeLimit THEN "tooLarge"
            ELSE "none"
       /\ calls'[1].outcome \in {"missingInput", "quotaExceeded"}
            => (state' = state /\ timers' = timers)]_vars

C12_Witness ==
  /\ calls[1].outcome = "quotaExceeded"
  /\ file.size > FreeMaxSize
  /\ user.subscription = "free"
  /\ state.error = NoError

AttemptFails(i) ==
  /\ calls'[i] # calls[i]
  /\ calls'[i].outcome \in {"tooLarge", "failure", "unreported"}

\* C17 (as stated): no conversion attempt ends in a rejected promise, and the
\* step in which an attempt fails leaves the orchestrator with
\* isConverting=false, result=null and a non-empty error message.
C17_ErrorsCaught ==
  /\ [](\A i \in CallIds : calls[i].outcome # "rejected")
  /\ [][\A i \in CallIds :
          AttemptFails(i) =>
            /\ ~state'.isConverting
            /\ state'.result = NoResult
            /\ state'.error \notin {NoError, ""}]_vars

SameCategoryRelabel(i) ==
  /\ calls[i].pc \in {"converting", "stalled"}
  /\ route(calls[i].file, calls[i].target) \in
       {"convertDocument", "convertAudio", "convertVideo", "convertArchive"}

\* C20 (as stated): a document, audio, video or archive conversion in flight,
\* its source read or failed to read, eventually settles, so that the
\* orchestrator eventually leaves Converting.
C20_ReadFailureEnds ==
  \A i \in CallIds : SameCategoryRelabel(i) ~> ~state.isConverting

-----------------------------------------------------------------------------
\* Claims about the quota bookkeeping and the orchestrator state.

IncrementReturns(i) == calls[i].pc = "incrementing" /\ calls'[i].pc = "done"

\* C21: the step in which incrementConversionsUsed returns, its backend write
\* failed or not, leaves the orchestrator state, its result and the preview
\* handles as they were, and handleConvert returns without throwing.
C21_IncrementFailureNotFatal ==
  [][\A i \in CallIds :
       IncrementReturns(i) =>
         /\ state' = state
         /\ urls' = urls
         /\ calls'[i].outcome = "success"]_vars

C21_Witness ==
  \E i \in CallIds :
    /\ calls[i].pc = "done"
    /\ calls[i].increments = 1
    /\ user # NoUser
    /\ backend.conversionsUsed = MAX_FREE_CONVERSIONS - 1
    /\ \A j \in CallIds \ {i} : calls[j].pc = "idle"
    /\ state.result = [success |-> TRUE, url |-> i]
    /\ urls[i] = [created |-> TRUE, revoked |-> 0]

QuotaCallIds == 1..MaxQuotaCalls

\* C22 (as stated): while a user is signed in, conversionsUsed, in the session
\* and in the backend, never decreases: a step leaves it as it is or raises
\* it by one.
C22_NeverDecreases ==
  [][(user # NoUser /\ user' # NoUser) =>
       /\ user'.conversionsUsed \in {user.conversionsUsed, user.conversionsUsed + 1}
       /\ backend'.conversionsUsed \in
            {backend.conversionsUsed, backend.conversionsUsed + 1}]_vars

\* C23 (as stated): no increment is lost: once every increment that was issued
\* has finished, the backend count is higher than at the start (0) by the
\* number of increments issued, also when they overlapped.
C23_NoLostUpdate ==
  (\A i \in QuotaCallIds : calls[i].pc # "incrementing") =>
    backend.conversionsUsed =
      Cardinality({i \in QuotaCallIds : calls[i].increments = 1})

StartsCall(i) == calls[i].pc = "idle" /\ calls'[i].pc # "idle"

\* C26 (as stated): once the orchestrator is Idle (after reset(), as at the
\* start) it stays Idle until the next startConversion: no other step, the
\* late completion of an earlier conversion included, changes its state.
C26_IdleUntilNextStart ==
  [][(state = IdleState /\ \A i \in CallIds : ~StartsCall(i))
       => state' = IdleState]_vars

\* C27: without a signed-in user the quota check passes, a request is stopped
\* by the 5 MiB size check only, and no increment is issued for a conversion
\* that a visitor started.
C27_VisitorUnlimited ==
  /\ [](user = NoUser => hasRemainingFreeConversions(user))
  /\ [](\A i \in CallIds :
          /\ calls[i].pc = "incrementing" => calls[i].user # NoUser
          /\ (calls[i].pc = "done" /\ ~calls[i].isAuthenticated)
               => calls[i].increments = 0)
  /\ [][\A i \in CallIds :
          (user = NoUser /\ StartsCall(i)) =>
            IF file.size > FreeMaxSize
              THEN calls'[i].outcome = "tooLarge"
              ELSE calls'[i].pc = "converting"]_vars

C27_Witness ==
  /\ user = NoUser
  /\ backend.conversionsUsed = MAX_FREE_CONVERSIONS - 1
  /\ \A i \in CallIds :
       /\ calls[i].pc = "done"
       /\ calls[i].outcome = "success"
       /\ ~calls[i].isAuthenticated
       /\ calls[i].increments = 0

\* C28: in every orchestrator state, isConverting implies result=null and
\* error=null; a result implies result.success, progress=100 and not
\* isConverting; an error implies result=null and not isConverting.
C28_StateInvariants ==
  /\ state.isConverting => (state.result = NoResult /\ state.error = NoError)
  /\ state.result # NoResult =>
       (state.result.success /\ state.progress = ProgressDone /\ ~state.isConverting)
  /\ state.error # NoError => (state.result = NoResult /\ ~state.isConverting)

C28_Witness ==
  /\ state.result # NoResult
  /\ state.progress = ProgressDone
  /\ \E i \in CallIds : calls[i].pc = "converting"

\* C29: an active timer is the one the ref holds, and the step of a tick that
\* stops (the one step that takes a timer away and leaves the calls, the ref
\* and the component as they are) happens when the orchestrator is not
\* Converting or progress is at least 85, leaves isConverting, progress,
\* result and error unchanged and leaves no timer active.
C29_StoppedTickFrame ==
  /\ [](\A t \in timers : t = progressIntervalRef)
  /\ [][(timers' # timers /\ UNCHANGED <<calls, mounted, progressIntervalRef>>) =>
          /\ ~state.isConverting \/ state.progress >= ProgressCeiling
          /\ state' = state
          /\ timers' = {}]_vars

C29_Witness ==
  /\ mounted
  /\ state.isConverting
  /\ state.progress >= ProgressCeiling
  /\ timers = {}
  /\ progressIntervalRef # 0
  /\ \E i \in CallIds : calls[i].pc = "converting"

-----------------------------------------------------------------------------
\* Claims about the height map.

\* C24: after the grayscale step a pixel has R = G = B = the integer nearest
\* to 0.299 R + 0.587 G + 0.114 B of its original channels, within 0..255,
\* and the alpha it had.
C24_GrayscaleLuminance ==
  response.kind = "pixel" =>
    LET px == request.pixel
        out == response.pixel
        lum == 299 * px.r + 587 * px.g + 114 * px.b
    IN  /\ out.r = out.g /\ out.g = out.b
        /\ out.r \in 0..255
        /\ 1000 * out.r - lum <= 500
        /\ lum - 1000 * out.r <= 500
        /\ out.a = px.a

C24_Witness ==
  /\ response.kind = "pixel"
  /\ request.pixel = [r |-> 255, g |-> 100, b |-> 0, a |-> 128]
  /\ response.pixel = [r |-> 135, g |-> 135, b |-> 135, a |-> 128]

\* C25 (as stated): when convertImageTo3D has returned, with success or with
\* failure, the object URL it created for the input image has been revoked
\* exactly once.
C25_InputUrlReleased ==
  response.kind = "image" =>
    (response.model.created = 1 /\ response.model.revoked = 1)

\* C30 (as stated): for a source image of width >= 1 and height >= 1 the
\* resized width and height of createHeightMap lie in 1..256, and are the
\* source's when neither source dimension exceeds 256.
C30_ResizedWithinBounds ==
  (response.kind = "image" /\ response.model.size # NoSize) =>
    /\ response.model.size.width \in 1..256
    /\ response.model.size.height \in 1..256
    /\ (request.width <= 256 /\ request.height <= 256) =>
         response.model.size = [width |-> request.width, height |-> request.height]

====
